---- MODULE Spec2Model ----
(***************************************************************************)
(* Model of app.py: the Streamlit page that evaluates an uploaded Keras    *)
(* model on a hidden test set and records the accuracy in leaderboard.csv. *)
(*                                                                         *)
(* One run of the script (a "render") is modelled per browser session in   *)
(* three steps, split where another session's run can interleave and where *)
(* the temporary file is observable:                                       *)
(*   Render    lines 55-62   read the widgets, load_leaderboard()           *)
(*   Guard     lines 64-68, 109-120  entry guard, temp file creation/write  *)
(*   Evaluate  lines 69-107, 114-120  load, shape check, evaluate, record   *)
(* The pandas/PIL/Keras calls are modelled by what they do to the values   *)
(* the script handles (CSV text, table cells, image sizes, tensor shapes). *)
(***************************************************************************)
EXTENDS Integers, Sequences, FiniteSets, TLC

\* ---------------------------------------------------------------- bounds
\* Number of test images in each class folder of TEST_IMAGE_DIR.
ImagesPerClass == 1
\* Number of times datetime.now() is read (line 81) before the model stops
\* accepting page runs; also the largest timestamp.
MaxClock == 2

\* ---------------------------------------------------------- configuration
LEADERBOARD_COLUMNS == <<"Username", "Accuracy", "Timestamp">>
CLASS_NAMES == <<"A", "B", "C">>
\* Python's None inside a Keras input_shape tuple (real dimensions are >= 1).
None == 0

\* ------------------------------------------------------------- characters
Digits == <<"0", "1", "2", "3", "4", "5", "6", "7", "8", "9">>

DigitChar(d) == Digits[d + 1]

DigitVal(c) == CHOOSE d \in 0..9 : Digits[d + 1] = c

\* Code point of the characters that occur in an Accuracy string.
Ord(c) ==
    CASE c = " " -> 32
      [] c = "%" -> 37
      [] c = "." -> 46
      [] OTHER   -> 48 + DigitVal(c)

\* Python's str < str: lexicographic by code point, a proper prefix is less.
RECURSIVE StrLess(_, _)
StrLess(a, b) ==
    IF b = <<>> THEN FALSE
    ELSE IF a = <<>> THEN TRUE
    ELSE IF Ord(Head(a)) # Ord(Head(b)) THEN Ord(Head(a)) < Ord(Head(b))
    ELSE StrLess(Tail(a), Tail(b))

RECURSIVE IntStr(_)
IntStr(n) == IF n < 10 THEN <<DigitChar(n)>> ELSE IntStr(n \div 10) \o <<DigitChar(n % 10)>>

RECURSIVE IntVal(_)
IntVal(cs) ==
    IF cs = <<>> THEN 0 ELSE 10 * IntVal(SubSeq(cs, 1, Len(cs) - 1)) + DigitVal(cs[Len(cs)])

\* A float with at most two decimals is held as its number of hundredths.
\* str(float) / to_csv's float text: shortest repr, at least one decimal.
FloatStr(h) ==
    IntStr(h \div 100) \o <<".">> \o
        (IF h % 10 = 0 THEN <<DigitChar((h % 100) \div 10)>>
         ELSE <<DigitChar((h % 100) \div 10), DigitChar(h % 10)>>)

\* read_csv's float parse of such a text, back to hundredths.
ParseFloat(cs) ==
    LET dot  == CHOOSE i \in 1..Len(cs) : cs[i] = "."
        ip   == IntVal(SubSeq(cs, 1, dot - 1))
        frac == SubSeq(cs, dot + 1, Len(cs))
    IN  100 * ip + (IF Len(frac) = 1 THEN 10 * IntVal(frac) ELSE IntVal(frac))

\* round(acc * 100, 2) for acc = num / den, in hundredths; Python rounds the
\* exact value half-to-even.
Round2(num, den) ==
    LET q == (10000 * num) \div den
        r == (10000 * num) % den
    IN  IF 2 * r > den \/ (2 * r = den /\ q % 2 = 1) THEN q + 1 ELSE q

\* ----------------------------------------------------------- the test set
\* load_raw_test_images(): the class folders in CLASS_NAMES order, the files
\* of a folder in sorted order; an image keeps its original size (not resized
\* here) and is labelled with the index of its folder. `content` is what the
\* picture shows, which is all a classifier's output depends on here.
NumImages == Len(CLASS_NAMES) * ImagesPerClass

load_raw_test_images ==
    [images |-> [i \in 1..NumImages |->
                    [width |-> 4, height |-> 3, content |-> (i - 1) \div ImagesPerClass]],
     labels |-> [i \in 1..NumImages |-> (i - 1) \div ImagesPerClass]]

\* ------------------------------------------------------- uploaded artifacts
\* What tf.keras.models.load_model makes of an uploaded file: whether it
\* deserializes at all, the model's input_shape, the class scores its predict
\* gives for a picture of each class, and whether predict fails on its own.
OneHot(k) == [j \in 1..Len(CLASS_NAMES) |-> IF j = k + 1 THEN 9 ELSE 0]

PerfectScores == [c \in 1..Len(CLASS_NAMES) |-> OneHot(c - 1)]

ZeroScores == [c \in 1..Len(CLASS_NAMES) |-> OneHot(0)]

Artifacts ==
    [perfect |-> [loads |-> TRUE,  input_shape |-> <<None, 2, 2, 3>>, scores |-> PerfectScores, fails |-> FALSE],
     zero    |-> [loads |-> TRUE,  input_shape |-> <<None, 2, 2, 3>>, scores |-> ZeroScores,    fails |-> FALSE],
     rect    |-> [loads |-> TRUE,  input_shape |-> <<None, 1, 2, 3>>, scores |-> PerfectScores, fails |-> FALSE],
     wild    |-> [loads |-> TRUE,  input_shape |-> <<None, None, 2, 3>>, scores |-> PerfectScores, fails |-> FALSE],
     gray    |-> [loads |-> TRUE,  input_shape |-> <<None, 2, 2, 1>>, scores |-> PerfectScores, fails |-> FALSE],
     wildw   |-> [loads |-> TRUE,  input_shape |-> <<None, 2, None, 3>>, scores |-> PerfectScores, fails |-> FALSE],
     rank3   |-> [loads |-> TRUE,  input_shape |-> <<None, 2, 3>>,    scores |-> PerfectScores, fails |-> FALSE],
     rank5   |-> [loads |-> TRUE,  input_shape |-> <<None, 2, 2, 2, 3>>, scores |-> PerfectScores, fails |-> FALSE],
     crash   |-> [loads |-> TRUE,  input_shape |-> <<None, 2, 2, 3>>, scores |-> PerfectScores, fails |-> TRUE],
     garbage |-> [loads |-> FALSE, input_shape |-> <<>>,              scores |-> PerfectScores, fails |-> FALSE]]

\* st.file_uploader's value: None ("none") or one uploaded file.
NoFile == "none"

Uploads == {NoFile} \cup DOMAIN Artifacts

\* st.text_input's value.
Usernames == {"", " ", "alice", "NA", "007"}

\* str.strip()
Strip(u) == IF u = " " THEN "" ELSE u

\* --------------------------------------------------------- evaluate_model
\* PIL's Image.resize(size): size is (width, height).
Resize(img, size) == [width |-> size[1], height |-> size[2], content |-> img.content]

\* np.array(img) / 255.0: an array of shape (height, width, 3).
ToArray(img) == [shape |-> <<img.height, img.width, 3>>, content |-> img.content]

\* np.stack: one leading axis; raises unless all shapes agree.
StackOk(arrs) == Len(arrs) > 0 /\ \A i \in 1..Len(arrs) : arrs[i].shape = arrs[1].shape

Stack(arrs) == [shape |-> <<Len(arrs)>> \o arrs[1].shape,
                contents |-> [i \in 1..Len(arrs) |-> arrs[i].content]]

\* model.predict(x) raises when x's per-image shape is not the declared one.
PredictOk(model, x) == ~model.fails /\ Tail(x.shape) = Tail(model.input_shape)

Predict(model, x) == [i \in 1..Len(x.contents) |-> model.scores[x.contents[i] + 1]]

\* np.argmax over one row: the first index holding the maximum, 0-based.
ArgMax(row) ==
    (CHOOSE j \in 1..Len(row) :
        /\ \A k \in 1..Len(row) : row[k] <= row[j]
        /\ \A k \in 1..(j - 1) : row[k] < row[j]) - 1

\* The batch handed to model.predict (lines 38-39).
Batch(pil_images, input_size) ==
    Stack([i \in 1..Len(pil_images) |-> ToArray(Resize(pil_images[i], input_size))])

\* Number of positions where y_pred == y (line 42's numerator).
NumCorrect(y_pred, y) == Cardinality({i \in 1..Len(y) : y_pred[i] = y[i]})

\* evaluate_model: acc is correct / n. ok = FALSE stands for an exception
\* raised by np.stack or model.predict; called tells whether predict was
\* reached, and x is the shape of the batch it was given.
evaluate_model(model, pil_images, y, input_size) ==
    LET arrs   == [i \in 1..Len(pil_images) |-> ToArray(Resize(pil_images[i], input_size))]
        x      == Batch(pil_images, input_size)
        preds  == Predict(model, x)
        y_pred == [i \in 1..Len(preds) |-> ArgMax(preds[i])]
    IN  IF ~StackOk(arrs) THEN [ok |-> FALSE, called |-> FALSE, x |-> <<>>, correct |-> 0, n |-> 0]
        ELSE IF ~PredictOk(model, x)
             THEN [ok |-> FALSE, called |-> TRUE, x |-> x.shape, correct |-> 0, n |-> 0]
        ELSE [ok |-> TRUE, called |-> TRUE, x |-> x.shape,
              correct |-> NumCorrect(y_pred, y), n |-> Len(y)]

\* ------------------------------------------------------- Leaderboard Store
\* A cell of the Username column of a DataFrame: a str, NaN, an int or a float
\* (only whole floats occur; n stands for n.0).
StrCell(u) == [t |-> "str", s |-> u, n |-> 0]

NaN == [t |-> "nan", s |-> "", n |-> 0]

IntCell(k) == [t |-> "int", s |-> "", n |-> k]

FloatCell(k) == [t |-> "float", s |-> "", n |-> k]

\* pandas' default na_values that a username can spell (read_csv keeps
\* keep_default_na=True), with the empty field.
NAValues == {"", "NA", "N/A", "NaN", "nan", "null", "NULL", "None", "n/a", "<NA>", "#N/A"}

\* Field texts read_csv's numeric inference accepts, and their value.
IntTexts == {"007", "7"}

FloatTexts == {"7.0"}

NumValue(txt) == CASE txt \in {"007", "7", "7.0"} -> 7

\* to_csv's text of a Username cell: na_rep is "", numbers are printed.
CellText(c) ==
    CASE c.t = "str"   -> c.s
      [] c.t = "nan"   -> ""
      [] c.t = "int"   -> ToString(c.n)
      [] c.t = "float" -> ToString(c.n) \o ".0"

\* read_csv's conversion of the Username column: the column is numeric when
\* every field is a number or an NA value (int64 without NA, float64 with),
\* otherwise object with NA values turned into NaN.
ParseUsernames(txts) ==
    LET n       == Len(txts)
        allInt  == \A i \in 1..n : txts[i] \in IntTexts
        allNum  == \A i \in 1..n : txts[i] \in IntTexts \cup FloatTexts \cup NAValues
    IN  [i \in 1..n |->
            IF allInt THEN IntCell(NumValue(txts[i]))
            ELSE IF txts[i] \in NAValues THEN NaN
            ELSE IF allNum THEN FloatCell(NumValue(txts[i]))
            ELSE StrCell(txts[i])]

\* DataFrame.to_csv(index=False): the header line and one line per row.
to_csv(df) ==
    [exists |-> TRUE,
     header |-> df.columns,
     rows   |-> [i \in 1..Len(df.rows) |->
                    [Username  |-> CellText(df.rows[i].Username),
                     Accuracy  |-> FloatStr(df.rows[i].Accuracy),
                     Timestamp |-> df.rows[i].Timestamp]]]

\* pd.read_csv on a file with a header line (an empty file raises).
read_csv(f) ==
    LET users == ParseUsernames([i \in 1..Len(f.rows) |-> f.rows[i].Username])
    IN  [columns |-> f.header,
         rows    |-> [i \in 1..Len(f.rows) |->
                        [Username  |-> users[i],
                         Accuracy  |-> ParseFloat(f.rows[i].Accuracy),
                         Timestamp |-> f.rows[i].Timestamp]]]

EmptyFrame == [columns |-> LEADERBOARD_COLUMNS, rows |-> <<>>]

NoFileYet == [exists |-> FALSE, header |-> <<>>, rows |-> <<>>]

\* load_leaderboard(): [ok, df]; ok = FALSE is read_csv's EmptyDataError on a
\* file of zero bytes.
load_leaderboard(f) ==
    IF f.exists
    THEN IF f.header = <<>> THEN [ok |-> FALSE, df |-> EmptyFrame]
         ELSE [ok |-> TRUE, df |-> read_csv(f)]
    ELSE [ok |-> TRUE, df |-> EmptyFrame]

\* What the operating system lets to_csv do: complete, fail before the file
\* is opened (e.g. permission denied), or fail after the open has truncated
\* the file and k whole lines were written (e.g. disk full).
SaveOutcomes(df) ==
    {[kind |-> "ok", k |-> 0], [kind |-> "fail_open", k |-> 0]}
        \cup {[kind |-> "fail_write", k |-> k] : k \in 0..Len(df.rows)}

\* The first k lines of a CSV text (the header is line 1).
FirstLines(f, k) ==
    IF k = 0 THEN [exists |-> TRUE, header |-> <<>>, rows |-> <<>>]
    ELSE [exists |-> TRUE, header |-> f.header, rows |-> SubSeq(f.rows, 1, k - 1)]

\* save_leaderboard(df) under outcome io: [ok, file]; ok = FALSE is the
\* exception to_csv raises.
save_leaderboard(df, old, io) ==
    CASE io.kind = "ok"         -> [ok |-> TRUE,  file |-> to_csv(df)]
      [] io.kind = "fail_open"  -> [ok |-> FALSE, file |-> old]
      [] io.kind = "fail_write" -> [ok |-> FALSE, file |-> FirstLines(to_csv(df), io.k)]

\* pd.concat([leaderboard, pd.DataFrame([new_row])], ignore_index=True)
concat(df, new_row) == [columns |-> df.columns, rows |-> Append(df.rows, new_row)]

\* ---------------------------------------------------------------- display
\* Line 119: Accuracy becomes the string str(value) + " %".
DisplayRow(r) ==
    [Username |-> r.Username, Accuracy |-> FloatStr(r.Accuracy) \o <<" ", "%">>,
     Timestamp |-> r.Timestamp]

\* The sort key comparison of sort_values("Accuracy", ascending=False) on the
\* display frame: a goes before b when its Accuracy value is greater; the
\* column holds the strings of line 119.
GoesBefore(a, b) == StrLess(b.Accuracy, a.Accuracy)

RECURSIVE Insert(_, _)
Insert(sorted, r) ==
    IF sorted = <<>> THEN <<r>>
    ELSE IF GoesBefore(r, Head(sorted)) THEN <<r>> \o sorted
    ELSE <<Head(sorted)>> \o Insert(Tail(sorted), r)

RECURSIVE SortRows(_)
SortRows(rows) ==
    IF rows = <<>> THEN <<>> ELSE Insert(SortRows(SubSeq(rows, 1, Len(rows) - 1)), rows[Len(rows)])

\* Lines 114-120: what st.table shows (<<>> with "No submissions yet.").
leaderboard_display(df) == SortRows([i \in 1..Len(df.rows) |-> DisplayRow(df.rows[i])])

\* ------------------------------------------------------------------ state
\* Browser sessions; Streamlit runs the script once per interaction of a
\* session, each session in its own thread.
Sessions == {"s1", "s2"}

VARIABLES
    file,           \* leaderboard.csv: [exists, header, rows] (the CSV text)
    clock,          \* number of datetime.now() readings so far
    pc,             \* per session: "idle", "guard" (line 64), "try" (line 69)
    submit,         \* per session: st.button's value in the current run
    uploaded_file,  \* per session: st.file_uploader's value
    username,       \* per session: st.text_input's value
    leaderboard,    \* per session: the script's `leaderboard` DataFrame
    tmpf,           \* per session: whether the NamedTemporaryFile exists on disk
    msgs,           \* per session: st.warning/st.error/st.success calls of the run
    raised,         \* per session: the call whose exception left the script, or "no"
    shown,          \* per session: [rendered, table] of the Leaderboard section
    call            \* per session: the run's use of evaluate_model / predict

vars == <<file, clock, pc, submit, uploaded_file, username, leaderboard, tmpf,
          msgs, raised, shown, call>>

NoCall == [evaluated |-> FALSE, input_size |-> <<>>, predicted |-> FALSE, x |-> <<>>]

NotShown == [rendered |-> FALSE, table |-> <<>>]

Init ==
    /\ file = NoFileYet
    /\ clock = 0
    /\ pc = [s \in Sessions |-> "idle"]
    /\ submit = [s \in Sessions |-> FALSE]
    /\ uploaded_file = [s \in Sessions |-> NoFile]
    /\ username = [s \in Sessions |-> ""]
    /\ leaderboard = [s \in Sessions |-> EmptyFrame]
    /\ tmpf = [s \in Sessions |-> FALSE]
    /\ msgs = [s \in Sessions |-> <<>>]
    /\ raised = [s \in Sessions |-> "no"]
    /\ shown = [s \in Sessions |-> NotShown]
    /\ call = [s \in Sessions |-> NoCall]

\* ----------------------------------------------------- handler, piecewise
\* Line 64's condition.
EntryGuard(sub, up, user) == sub /\ up # NoFile /\ Strip(user) # ""

\* Line 73 without its rank test: any shape ending in 3 would pass.
ShapeAccepted_LastDimOnly(input_shape) == input_shape[Len(input_shape)] = 3

\* Line 73's condition.
ShapeAccepted(input_shape) == Len(input_shape) = 4 /\ input_shape[Len(input_shape)] = 3

\* Line 74.
InputSize(input_shape) == <<input_shape[2], input_shape[3]>>

\* The with block as it would be with delete=False: the file stays.
ScopeExit_KeepsFile(exists) == exists

\* Leaving the `with tempfile.NamedTemporaryFile(delete=True)` block, by
\* falling out of it or by an exception: the file is closed and deleted.
ScopeExit(exists) == FALSE

\* Lines 114-120.
Section(df) == [rendered |-> TRUE, table |-> leaderboard_display(df)]

\* Lines 69-107 for a loaded artifact `model`: the message shown, the script's
\* leaderboard, the CSV file, the clock and the evaluator's use afterwards.
TryBlock(model, df, user, now, f, io) ==
    LET same(m, c) == [msg |-> m, leaderboard |-> df, file |-> f, clock |-> now, call |-> c]
    IN
    IF ~model.loads THEN same("error_load", NoCall)
    ELSE IF ~ShapeAccepted(model.input_shape) THEN same("error_shape", NoCall)
    ELSE
      LET input_size == InputSize(model.input_shape) IN
      IF None \in {input_size[1], input_size[2]} THEN same("error_dims", NoCall)
      ELSE
        LET raw == load_raw_test_images
            ev  == evaluate_model(model, raw.images, raw.labels, input_size)
            c   == [evaluated |-> TRUE, input_size |-> input_size,
                    predicted |-> ev.called, x |-> ev.x]
        IN
        IF ~ev.ok THEN same("error_run", c)
        ELSE
          LET new_row == [Username  |-> StrCell(user),
                          Accuracy  |-> Round2(ev.correct, ev.n),
                          Timestamp |-> now + 1]
              df2     == concat(df, new_row)
              sv      == save_leaderboard(df2, f, io)
          IN  [msg |-> IF sv.ok THEN "success" ELSE "error_run",
               leaderboard |-> df2, file |-> sv.file, clock |-> now + 1, call |-> c]

\* ---------------------------------------------------------------- actions
\* Lines 55-59 and 62: the widgets hold some (sub, up, user) of the user's
\* choosing; l is what line 61's load returned. A read_csv error aborts the
\* run.
Widgets(s, ups, users, l) ==
    \E sub \in BOOLEAN, up \in ups, user \in users :
        /\ clock < MaxClock \/ ~sub
        /\ submit' = [submit EXCEPT ![s] = sub]
        /\ uploaded_file' = [uploaded_file EXCEPT ![s] = up]
        /\ username' = [username EXCEPT ![s] = user]
        /\ leaderboard' = [leaderboard EXCEPT ![s] = l.df]
        /\ raised' = [raised EXCEPT ![s] = IF l.ok THEN "no" ELSE "read_csv"]
        /\ pc' = [pc EXCEPT ![s] = IF l.ok THEN "guard" ELSE "idle"]

\* Lines 55-62: a script run starts and loads the leaderboard from disk.
Render(s, ups, users) ==
    /\ pc[s] = "idle"
    /\ Widgets(s, ups, users, load_leaderboard(file))
    /\ msgs' = [msgs EXCEPT ![s] = <<>>]
    /\ shown' = [shown EXCEPT ![s] = NotShown]
    /\ call' = [call EXCEPT ![s] = NoCall]
    /\ UNCHANGED <<file, clock, tmpf>>

\* Lines 64-68 and 109-120: the entry guard. With all three inputs present the
\* temp file is created and the upload written to it (wrote = FALSE: the
\* write or flush raises, outside any try, and the with block deletes the
\* file on the way out); otherwise a warning, if any, and the Leaderboard
\* section end the run.
Guard(s, wrote) ==
    /\ pc[s] = "guard"
    /\ IF EntryGuard(submit[s], uploaded_file[s], username[s])
       THEN IF wrote
            THEN /\ tmpf' = [tmpf EXCEPT ![s] = TRUE]
                 /\ pc' = [pc EXCEPT ![s] = "try"]
                 /\ UNCHANGED <<msgs, raised, shown>>
            ELSE /\ tmpf' = [tmpf EXCEPT ![s] = ScopeExit(TRUE)]
                 /\ raised' = [raised EXCEPT ![s] = "tmpf.write"]
                 /\ pc' = [pc EXCEPT ![s] = "idle"]
                 /\ UNCHANGED <<msgs, shown>>
       ELSE /\ msgs' = [msgs EXCEPT ![s] =
                          IF submit[s] /\ uploaded_file[s] = NoFile THEN <<"warning_file">>
                          ELSE IF submit[s] /\ Strip(username[s]) = "" THEN <<"warning_username">>
                          ELSE <<>>]
            /\ shown' = [shown EXCEPT ![s] = Section(leaderboard[s])]
            /\ pc' = [pc EXCEPT ![s] = "idle"]
            /\ UNCHANGED <<tmpf, raised>>
    /\ UNCHANGED <<file, clock, submit, uploaded_file, username, leaderboard, call>>

\* Lines 69-107 and 114-120: the try block on the written temp file, the end
\* of the with block, and the Leaderboard section. io is what the operating
\* system does to to_csv's write, should the run get that far.
Evaluate(s, io) ==
    /\ pc[s] = "try"
    /\ LET r == TryBlock(Artifacts[uploaded_file[s]], leaderboard[s], username[s],
                         clock, file, io)
       IN  /\ msgs' = [msgs EXCEPT ![s] = <<r.msg>>]
           /\ leaderboard' = [leaderboard EXCEPT ![s] = r.leaderboard]
           /\ file' = r.file
           /\ clock' = r.clock
           /\ call' = [call EXCEPT ![s] = r.call]
           /\ shown' = [shown EXCEPT ![s] = Section(r.leaderboard)]
    /\ tmpf' = [tmpf EXCEPT ![s] = ScopeExit(tmpf[s])]
    /\ pc' = [pc EXCEPT ![s] = "idle"]
    /\ UNCHANGED <<submit, uploaded_file, username, raised>>

\* The outcomes of to_csv's write the operating system can produce for
\* session s, among the kinds in `kinds`: a failed write leaves any strict
\* prefix of the lines.
IoOutcomes(s, kinds) ==
    {io \in SaveOutcomes(concat(leaderboard[s], [Username |-> NaN, Accuracy |-> 0, Timestamp |-> 0])) :
        io.kind \in kinds}

\* One step of session s, its user choosing uploads from ups and names from
\* users.
Step(s, ups, users, kinds) ==
    \/ Render(s, ups, users)
    \/ \E wrote \in BOOLEAN : Guard(s, wrote)
    \/ \E io \in IoOutcomes(s, kinds) : Evaluate(s, io)

\* One session: the runs of the script follow one another.
Next == Step("s1", Uploads, Usernames, {"ok", "fail_open", "fail_write"})

Spec == Init /\ [][Next]_vars

\* Two sessions whose runs interleave between the load (line 61) and the save
\* (line 90); their users submit working models or nothing, and every write
\* of leaderboard.csv completes.
ConcurrentUploads == {NoFile, "perfect", "zero"}

ConcurrentUsernames == {"", "alice"}

NextConcurrent == \E s \in Sessions : Step(s, ConcurrentUploads, ConcurrentUsernames, {"ok"})

SpecConcurrent == Init /\ [][NextConcurrent]_vars

\* The Leaderboard Store on its own: a well-formed table T (usernames are
\* non-empty strings, accuracies are percentages with two decimals) is in
\* memory; it is saved, loaded back, saved again, ...
StoreUsernames == {"alice", "NA", "007"}

StoreAccuracies == {0, 3333, 10000}

StoreRows ==
    [Username : {StrCell(u) : u \in StoreUsernames}, Accuracy : StoreAccuracies,
     Timestamp : 1..MaxClock]

WellFormedTables ==
    {[columns |-> LEADERBOARD_COLUMNS, rows |-> rs] :
        rs \in {<<>>} \cup {<<r>> : r \in StoreRows} \cup {<<r, q>> : r, q \in StoreRows}}

InitStore ==
    /\ file = NoFileYet
    /\ clock = 0
    /\ pc = [s \in Sessions |-> "idle"]
    /\ submit = [s \in Sessions |-> FALSE]
    /\ uploaded_file = [s \in Sessions |-> NoFile]
    /\ username = [s \in Sessions |-> ""]
    /\ \E T \in WellFormedTables : leaderboard = [s \in Sessions |-> T]
    /\ tmpf = [s \in Sessions |-> FALSE]
    /\ msgs = [s \in Sessions |-> <<>>]
    /\ raised = [s \in Sessions |-> "no"]
    /\ shown = [s \in Sessions |-> NotShown]
    /\ call = [s \in Sessions |-> NoCall]

StoreSave ==
    /\ file' = save_leaderboard(leaderboard["s1"], file, [kind |-> "ok", k |-> 0]).file
    /\ UNCHANGED <<clock, pc, submit, uploaded_file, username, leaderboard, tmpf,
                   msgs, raised, shown, call>>

StoreLoad ==
    /\ leaderboard' = [leaderboard EXCEPT !["s1"] = load_leaderboard(file).df]
    /\ UNCHANGED <<file, clock, pc, submit, uploaded_file, username, tmpf,
                   msgs, raised, shown, call>>

NextStore == StoreSave \/ StoreLoad

SpecStore == InitStore /\ [][NextStore]_vars

\* ----------------------------------------------------------------- claims
ErrorMessages == {"error_load", "error_shape", "error_dims", "error_run"}

WarningMessages == {"warning_file", "warning_username"}

\* Session s's script run ends in this step.
RunEnds(s) == pc[s] \in {"guard", "try"} /\ pc'[s] = "idle"

\* The submission handler (line 64's branch) of session s has ended.
HandlerEnded(s) ==
    /\ pc[s] = "idle"
    /\ EntryGuard(submit[s], uploaded_file[s], username[s])
    /\ raised[s] # "read_csv"

\* The share of test images whose argmax-predicted label is the true label,
\* as a percentage rounded to two decimals (in hundredths), for an artifact.
ExpectedAccuracy(up) ==
    LET y == load_raw_test_images.labels
        right == {i \in 1..Len(y) : ArgMax(Artifacts[up].scores[y[i] + 1]) = y[i]}
    IN  Round2(Cardinality(right), Len(y))

\* C1: a submission that ends in a failure outcome (a warning, an error
\* message, or an exception leaving the script) leaves leaderboard.csv with
\* the content it had before the attempt.
C1_NoMutationOnFailure ==
    [][\A s \in Sessions :
         (/\ RunEnds(s)
          /\ submit[s]
          /\ \/ raised'[s] # "no"
             \/ \E m \in ErrorMessages \cup WarningMessages : msgs'[s] = <<m>>)
         => file' = file]_vars

\* C2: a submission whose evaluation and recording raise nothing adds exactly
\* one line to leaderboard.csv: one more row than before, the earlier rows
\* unchanged, and the new row's Accuracy is the rounded percentage of test
\* images classified correctly (33.33 for the artifact that always answers
\* class 0).
C2_SuccessAppendsOneRow ==
    [][\A s \in Sessions :
         (pc[s] = "try" /\ msgs'[s] = <<"success">>)
         => /\ file'.exists
            /\ Len(file'.rows) = Len(file.rows) + 1
            /\ SubSeq(file'.rows, 1, Len(file.rows)) = file.rows
            /\ file'.rows[Len(file'.rows)].Accuracy = FloatStr(ExpectedAccuracy(uploaded_file[s]))
            /\ (uploaded_file[s] = "zero" => file'.rows[Len(file'.rows)].Accuracy = <<"3", "3", ".", "3", "3">>)]_vars

\* The part of C2 that does not depend on how earlier rows are re-serialized:
\* the script's table gains exactly the new row, the file gains one line, and
\* the accuracy is the rounded percentage.
C2_RowAndAccuracy ==
    [][\A s \in Sessions :
         (pc[s] = "try" /\ msgs'[s] = <<"success">>)
         => /\ file' = to_csv(leaderboard'[s])
            /\ Len(file'.rows) = Len(file.rows) + 1
            /\ Len(leaderboard'[s].rows) = Len(leaderboard[s].rows) + 1
            /\ SubSeq(leaderboard'[s].rows, 1, Len(leaderboard[s].rows)) = leaderboard[s].rows
            /\ leaderboard'[s].rows[Len(leaderboard'[s].rows)] =
                  [Username |-> StrCell(username[s]),
                   Accuracy |-> ExpectedAccuracy(uploaded_file[s]),
                   Timestamp |-> clock']
            /\ (uploaded_file[s] = "zero" => file'.rows[Len(file'.rows)].Accuracy = <<"3", "3", ".", "3", "3">>)]_vars

\* The number a displayed Accuracy string ("33.33 %") stands for, in
\* hundredths.
ShownAccuracy(r) == ParseFloat(SubSeq(r.Accuracy, 1, Len(r.Accuracy) - 2))

\* C3: the table of the Leaderboard section is in descending order of
\* accuracy taken as a number: no row is listed below a row of numerically
\* lower accuracy.
C3_DisplaySortedNumerically ==
    \A s \in Sessions :
        shown[s].rendered =>
            \A i, j \in 1..Len(shown[s].table) :
                i < j => ShownAccuracy(shown[s].table[i]) >= ShownAccuracy(shown[s].table[j])

\* C4: leaderboard.csv is append-only: every row in the file is still in the
\* file, unchanged, after every step, whichever sessions' runs overlap.
C4_AppendOnly ==
    [][\A i \in 1..Len(file.rows) :
          /\ file'.exists
          /\ \E j \in 1..Len(file'.rows) : file'.rows[j] = file.rows[i]]_vars

\* A declared input shape that C5 says must be rejected.
RejectedShape(shape) ==
    \/ Len(shape) # 4
    \/ shape[Len(shape)] # 3
    \/ shape[2] = None
    \/ shape[3] = None

\* C5: for a loaded model whose input shape has rank other than 4, or a last
\* dimension other than 3, or an unspecified height or width, the run ends
\* with one error message, evaluate_model is not called, and neither the
\* script's table nor leaderboard.csv gains a row.
C5_ShapeRejection ==
    [][\A s \in Sessions :
         (/\ pc[s] = "try"
          /\ Artifacts[uploaded_file[s]].loads
          /\ RejectedShape(Artifacts[uploaded_file[s]].input_shape))
         => /\ \E m \in ErrorMessages : msgs'[s] = <<m>>
            /\ ~call'[s].evaluated
            /\ ~call'[s].predicted
            /\ leaderboard'[s] = leaderboard[s]
            /\ file' = file]_vars

\* C5's case: a rank-3 shape ending in 3 was rejected where rows already exist.
C5_Witness ==
    \E s \in Sessions :
        /\ HandlerEnded(s)
        /\ uploaded_file[s] = "rank3"
        /\ msgs[s] = <<"error_shape">>
        /\ Len(file.rows) > 0

\* C6: the temporary file of a submission does not exist once the handling
\* has ended, whichever way it ended, nor when the session's next run starts.
C6_TempFileDeleted ==
    \A s \in Sessions : pc[s] \in {"idle", "guard"} => ~tmpf[s]

\* C6's case: the write of the upload into the temp file raised, and the
\* file is gone.
C6_Witness ==
    \E s \in Sessions : HandlerEnded(s) /\ raised[s] = "tmpf.write" /\ ~tmpf[s]

\* C7: every error raised while handling a submission is caught in the
\* handler and shown as a message: no exception leaves the script and the
\* Leaderboard section is rendered afterwards.
C7_AllErrorsCaught ==
    \A s \in Sessions :
        HandlerEnded(s) =>
            /\ raised[s] = "no"
            /\ Len(msgs[s]) = 1
            /\ shown[s].rendered

\* C8: a submit request produces exactly one outcome message; without an
\* artifact it is the missing-file warning whatever the username, the
\* missing-username warning is shown only with an artifact and a username
\* that is empty once stripped, and in both cases no temp file is created,
\* no model is loaded or evaluated and leaderboard.csv is unchanged; without
\* a submit request there is no message and no evaluation.
C8_MissingInputReporting ==
    [][\A s \in Sessions :
         RunEnds(s) =>
            /\ submit[s] => Len(msgs'[s]) = 1
            /\ (submit[s] /\ uploaded_file[s] = NoFile) => msgs'[s] = <<"warning_file">>
            /\ (msgs'[s] = <<"warning_username">>) <=>
                  (submit[s] /\ uploaded_file[s] # NoFile /\ Strip(username[s]) = "")
            /\ (submit[s] /\ ~EntryGuard(submit[s], uploaded_file[s], username[s])) =>
                  /\ pc[s] = "guard"
                  /\ ~tmpf'[s]
                  /\ call'[s] = NoCall
                  /\ file' = file
            /\ ~submit[s] => (msgs'[s] = <<>> /\ call'[s] = NoCall /\ file' = file)]_vars

\* C8 without its first clause: which warning is shown, and that nothing is
\* created, loaded, evaluated or written in those cases.
C8_WarningsOnly ==
    [][\A s \in Sessions :
         RunEnds(s) =>
            /\ (submit[s] /\ uploaded_file[s] = NoFile) => msgs'[s] = <<"warning_file">>
            /\ (msgs'[s] = <<"warning_username">>) <=>
                  (submit[s] /\ uploaded_file[s] # NoFile /\ Strip(username[s]) = "")
            /\ (submit[s] /\ ~EntryGuard(submit[s], uploaded_file[s], username[s])) =>
                  /\ pc[s] = "guard"
                  /\ ~tmpf'[s]
                  /\ call'[s] = NoCall
                  /\ file' = file
            /\ ~submit[s] => (msgs'[s] = <<>> /\ call'[s] = NoCall /\ file' = file)]_vars

\* C9: load_leaderboard() after save_leaderboard(T) returns T, and
\* save_leaderboard(load_leaderboard()) leaves the file's content unchanged.
C9_StoreRoundTrip ==
    [][/\ (file = to_csv(leaderboard["s1"])) => leaderboard'["s1"] = leaderboard["s1"]
       /\ (file.exists /\ leaderboard["s1"] = load_leaderboard(file).df) => file' = file]_vars

\* C10: when predict is called for a model of input shape (batch, H, W, 3),
\* evaluate_model was given (H, W) and the batch has shape (N, H, W, 3).
C10_BatchMatchesGeometry ==
    \A s \in Sessions :
        (pc[s] = "idle" /\ call[s].evaluated) =>
            LET shape == Artifacts[uploaded_file[s]].input_shape IN
            /\ call[s].input_size = <<shape[2], shape[3]>>
            /\ call[s].predicted => call[s].x = <<NumImages, shape[2], shape[3], 3>>

====
